---- MODULE Spec2Model ----
(***************************************************************************)
(* The pam-http bridge of openuds: the HTTP client of http.c, the NSS      *)
(* passwd entry points of passwd.c and the PAM entry point of pam_uds.c.   *)
(*                                                                         *)
(* C strings are sequences of one-character strings; a memory block is a   *)
(* record [size, bytes, oob]: bytes is the block byte by byte (index 0 of  *)
(* the C code is bytes[1]), oob the set of C indices that were written     *)
(* past the end of the block.                                              *)
(***************************************************************************)
EXTENDS Integers, Sequences, FiniteSets, TLC

VARIABLES
    baseUrl,    \* pam_uds.c: the static char baseUrl[128], as a C string
    call,       \* the getUrl invocation the fetch specification is about to run
    ret         \* what the last entry point returned and wrote (observation)

vars == <<baseUrl, call, ret>>

-----------------------------------------------------------------------------
(* Program constants *)

DATASIZE == 256          \* http.c: #define DATASIZE 256
UrlSize == 256           \* http.c: char* url = malloc(256)
HostSize == 256          \* passwd.c: char host[256]
BaseUrlSize == 128       \* pam_uds.c: static char baseUrl[128]
MinBufLen == 128         \* passwd.c: buflen < 128
PAM_SILENT == 32768      \* security/_pam_types.h: #define PAM_SILENT 0x8000U
NOGROUP == 65534         \* passwd.c: result->pw_gid = 65534

UID == <<"u", "i", "d">>
NAME == <<"n", "a", "m", "e">>
AUTHID == <<"i", "d">>
AUTHPASS == <<"p", "a", "s", "s">>
HomeDir == <<"/", "v", "a", "r", "/", "u", "d", "s", "t", "m", "p">>

(* libcurl result codes that curl_easy_perform can hand back *)
CURLE_OK == 0
CURLE_COULDNT_CONNECT == 7
CURLE_HTTP_RETURNED_ERROR == 22
CURLE_WRITE_ERROR == 23
CURLE_RECV_ERROR == 56

-----------------------------------------------------------------------------
(* Bounds of the model *)

MaxBody == 2             \* response bodies: every string up to this length
MaxCut == 1              \* a body arrives whole or cut in two after 1..MaxCut bytes
MaxCap == 4              \* small capacities tried by the fetch specification
MaxArgs == 1             \* length of the argv handed to pam_sm_authenticate

-----------------------------------------------------------------------------
(* Bytes, strings and memory blocks *)

NUL == "NUL"
UNINIT == "UNINIT"

Fill(c, n) == [i \in 1..n |-> c]

Strings(alphabet, n) == UNION {[1..k -> alphabet] : k \in 0..n}

Max(a, b) == IF a >= b THEN a ELSE b
Min(a, b) == IF a <= b THEN a ELSE b

\* A block of n bytes, fresh from malloc or the stack: bytes[i + 1] is the byte at
\* C index i. A store past the end lands in the memory that follows the block:
\* bytes grows to hold it and oob records the C indices written out of bounds.
Mem(n) == [size |-> n, bytes |-> Fill(UNINIT, n), oob |-> {}]

\* memcpy / the stores of sprintf, strcpy, sscanf: the bytes of s land at C
\* indices at .. at+Len(s)-1.
StoreSeq(m, at, s) ==
    LET old == m.bytes \o Fill(UNINIT, at - Len(m.bytes))
    IN  [size |-> m.size,
         bytes |-> SubSeq(old, 1, at) \o s \o SubSeq(old, at + Len(s) + 1, Len(old)),
         oob |-> m.oob \cup {j \in Max(at, m.size)..(at + Len(s) - 1) : TRUE}]

\* strlen: the C index of the first NUL
StrLen(bytes) ==
    (CHOOSE i \in 1..Len(bytes) : bytes[i] = NUL /\ \A j \in 1..(i - 1) : bytes[j] # NUL) - 1

CStr(bytes) == SubSeq(bytes, 1, StrLen(bytes))

-----------------------------------------------------------------------------
(* http.c: the Directory Client *)

\* Rejects with an off-by-one bound, > for >=: the variant the bound must exclude.
RejectsOffByOne(pos, realSize, size) == pos + realSize > size

\* authenticatorData, line 24: if( data->pos + realSize >= data->size )
Rejects(pos, realSize, size) == pos + realSize >= size

\* A variant of authenticatorData: a chunk that does not fit is clamped to the
\* room left instead of being refused.
authenticatorDataClamped(data, chunk) ==
    LET realSize == Len(chunk)
        room == Max(0, Min(realSize, data.size - data.pos - 1))
    IN  [data |-> [data EXCEPT !.buffer = StoreSeq(@, data.pos, SubSeq(chunk, 1, room)),
                               !.pos = @ + room],
         ret |-> room]

\* authenticatorData: data is the struct OutputData, chunk the bytes libcurl
\* hands over (size * nmemb of them). Gives the struct back and the return value.
authenticatorData(data, chunk) ==
    LET realSize == Len(chunk)
    IN  IF Rejects(data.pos, realSize, data.size)
        THEN [data |-> data, ret |-> 0]
        ELSE [data |-> [data EXCEPT !.buffer = StoreSeq(@, data.pos, chunk),
                                    !.pos = @ + realSize],
              ret |-> realSize]

\* libcurl delivering the body: the write callback once per chunk, in order;
\* a callback that returns another count than it was given aborts the
\* transfer with CURLE_WRITE_ERROR. rejected is the chunk that was refused.
RECURSIVE Deliver(_, _, _)
Deliver(data, chunks, last) ==
    IF chunks = <<>>
    THEN [data |-> data, res |-> last, rejected |-> <<>>, aborted |-> FALSE]
    ELSE LET r == authenticatorData(data, Head(chunks))
         IN  IF r.ret # Len(Head(chunks))
             THEN [data |-> r.data, res |-> CURLE_WRITE_ERROR,
                   rejected |-> Head(chunks), aborted |-> TRUE]
             ELSE Deliver(r.data, Tail(chunks), last)

\* curl_easy_perform under the options getUrl sets. env is what the network
\* does: connect (the connection is made), status (the HTTP status), chunks
\* (the body as it arrives), recv (the transfer completes). CURLOPT_FAILONERROR
\* fails a status >= 400 before any body is delivered; no redirect is followed.
curl_easy_perform(data, env) ==
    IF ~env.connect
    THEN [data |-> data, res |-> CURLE_COULDNT_CONNECT, rejected |-> <<>>, aborted |-> FALSE]
    ELSE IF env.status >= 400
    THEN [data |-> data, res |-> CURLE_HTTP_RETURNED_ERROR, rejected |-> <<>>, aborted |-> FALSE]
    ELSE Deliver(data, env.chunks, IF env.recv THEN CURLE_OK ELSE CURLE_RECV_ERROR)

\* getUrl: buffer is the caller's block of size bytes. Gives res, the block
\* afterwards, data->pos, the URLs requested, and the chunk refused (if any).
getUrl(url, buffer, size, env) ==
    IF ~env.init
    THEN [res |-> -1, buffer |-> buffer, pos |-> 0, sent |-> <<>>,
          rejected |-> <<>>, aborted |-> FALSE]
    ELSE LET data == [buffer |-> buffer, size |-> size, pos |-> 0]
             p == curl_easy_perform(data, env)
         IN  [res |-> p.res,
              buffer |-> StoreSeq(p.data.buffer, p.data.pos, <<NUL>>),
              pos |-> p.data.pos,
              sent |-> <<url>>,
              rejected |-> p.rejected,
              aborted |-> p.aborted]

-----------------------------------------------------------------------------
(* libc: the conversions the code calls *)

Spaces == {" ", "\t", "\n"}
DigitChars == {"0", "1", "2", "3", "4", "5", "6", "7", "8", "9"}

DigitVal(c) ==
    CASE c = "0" -> 0 [] c = "1" -> 1 [] c = "2" -> 2 [] c = "3" -> 3 [] c = "4" -> 4
      [] c = "5" -> 5 [] c = "6" -> 6 [] c = "7" -> 7 [] c = "8" -> 8 [] c = "9" -> 9

DigitChar(d) == <<"0", "1", "2", "3", "4", "5", "6", "7", "8", "9">>[d + 1]

\* A uid_t is held as its two 16-bit halves [hi, lo] (TLC's integers
\* are 32-bit signed ones); an int is held as its value.
\* ToInt32: the uid_t read as an int, as getName( host, uid, ... ) does.
\* ToUInt32: the int stored through (int*)&result->pw_uid, read as a uid_t.
ToInt32(u) == IF u.hi >= 32768 THEN (u.hi - 65536) * 65536 + u.lo ELSE u.hi * 65536 + u.lo
ToUInt32(v) == [hi |-> ((v \div 65536) + 65536) % 65536, lo |-> v % 65536]

\* the first index at or after i where the run of bytes that are in chars
\* (inside = TRUE) or not in chars (inside = FALSE) ends
RunEnd(s, i, chars, inside) ==
    CHOOSE j \in i..(Len(s) + 1) :
        /\ (j = Len(s) + 1 \/ (s[j] \in chars) # inside)
        /\ \A k \in i..(j - 1) : (s[k] \in chars) = inside

RECURSIVE Decimal(_, _, _)
Decimal(s, i, j) == IF j <= i THEN 0 ELSE 10 * Decimal(s, i, j - 1) + DigitVal(s[j - 1])

RECURSIVE Digits(_)
Digits(n) == IF n < 10 THEN <<DigitChar(n)>> ELSE Digits(n \div 10) \o <<DigitChar(n % 10)>>

\* sprintf( tmp, "%d", id )
FormatInt(n) == IF n < 0 THEN <<"-">> \o Digits(-n) ELSE Digits(n)

\* sscanf( s, "%d %s", ... ): n conversions were stored; d is the integer (when
\* n >= 1) and tok the token (when n = 2). %d skips white space, takes an
\* optional sign and needs a digit; the blank and %s skip white space; %s takes
\* the bytes up to the next white space and needs at least one.
sscanf(s) ==
    LET i == RunEnd(s, 1, Spaces, TRUE)
        signed == i <= Len(s) /\ s[i] \in {"-", "+"}
        d0 == IF signed THEN i + 1 ELSE i
        d1 == RunEnd(s, d0, DigitChars, TRUE)
        mag == Decimal(s, d0, d1)
        t0 == RunEnd(s, d1, Spaces, TRUE)
        t1 == RunEnd(s, t0, Spaces, FALSE)
    IN  IF d1 = d0 THEN [n |-> 0, d |-> 0, tok |-> <<>>]
        ELSE [n |-> IF t1 = t0 THEN 1 ELSE 2,
              d |-> IF signed /\ s[i] = "-" THEN -mag ELSE mag,
              tok |-> SubSeq(s, t0, t1 - 1)]

-----------------------------------------------------------------------------
(* http.c: the resolver *)

\* sprintf into the url block of malloc(256); str is the formatted text
UrlBlock(str) == StoreSeq(Mem(UrlSize), 0, str \o <<NUL>>)

\* The URL libcurl reads at the url pointer. When sprintf ran past the 256
\* bytes the heap that follows is damaged (undefined behaviour): the text may
\* still be read whole, or its tail may have been overwritten since.
UrlRead(str) ==
    IF UrlBlock(str).oob = {} THEN {str}
    ELSE {str, SubSeq(str, 1, UrlSize) \o <<UNINIT>>}

\* A variant of LookupUrl: the name is sent under "id", the key of the
\* authentication request.
LookupUrlAuthKey(host, kind, id) ==
    host \o <<"?">> \o (IF kind = UID THEN AUTHID ELSE kind) \o <<"=">> \o id

\* getUserData, line 92: sprintf( url, "%s?%s=%s", host, kind, id )
LookupUrl(host, kind, id) == host \o <<"?">> \o kind \o <<"=">> \o id

\* getUserData, lines 96-105: res is getUrl's result and body the C string in
\* the response buffer; username and uid are as lines 89-90 left them.
DecodeLookup(res, body, username, uid) ==
    IF res # 0 THEN [res |-> res, username |-> username, uid |-> uid]
    ELSE IF body # <<>> /\ body[1] = "*"
    THEN [res |-> -1, username |-> username, uid |-> uid]
    ELSE LET sc == sscanf(body)
             uid1 == IF sc.n >= 1 THEN sc.d ELSE uid
         IN  [res |-> IF uid1 = -1 THEN -1 ELSE res,
              username |-> IF sc.n = 2
                           THEN StoreSeq(username, 0, sc.tok \o <<NUL>>)
                           ELSE username,
              uid |-> uid1]

\* getUserData: username is the caller's block. The set of outcomes the call
\* can have: one, unless the url block overflowed.
getUserData(host, kind, id, username, env) ==
    LET str == LookupUrl(host, kind, id)
        u0 == StoreSeq(username, 0, <<NUL>>)
    IN  {LET f == getUrl(url, Mem(DATASIZE), DATASIZE, env)
             d == DecodeLookup(f.res, IF f.res = 0 THEN CStr(f.buffer.bytes) ELSE <<>>, u0, -1)
         IN  [res |-> d.res, username |-> d.username, uid |-> d.uid,
              url |-> str, urlOob |-> UrlBlock(str).oob, fetch |-> f]
           : url \in UrlRead(str)}

getUID(host, name, username, env) == getUserData(host, UID, name, username, env)

getName(host, id, username, env) == getUserData(host, NAME, FormatInt(id), username, env)

\* httpAuthenticate, lines 75-76: first is buffer[0]
AuthVerdict(res, first) == IF res = 0 /\ first = "0" THEN -1 ELSE res

AuthUrl(username, password, authHost) ==
    authHost \o <<"?">> \o AUTHID \o <<"=">> \o username
             \o <<"&">> \o AUTHPASS \o <<"=">> \o password

\* httpAuthenticate: the set of outcomes the call can have
httpAuthenticate(username, password, authHost, env) ==
    LET str == AuthUrl(username, password, authHost)
    IN  {LET f == getUrl(url, Mem(DATASIZE), DATASIZE, env)
         IN  [res |-> AuthVerdict(f.res, f.buffer.bytes[1]),
              url |-> str, urlOob |-> UrlBlock(str).oob, fetch |-> f]
           : url \in UrlRead(str)}

-----------------------------------------------------------------------------
(* passwd.c: the NSS passwd entry points *)

\* fgets( s, n, f ) on a file holding content (not empty): at most n - 1
\* bytes, through the first newline
fgets(n, content) ==
    LET nl == RunEnd(content, 1, {"\n"}, FALSE)
    IN  SubSeq(content, 1, Min(Min(nl, Len(content)), n - 1))

\* what an uninitialised char host[256] on the stack may hold as a C string
StackGarbage == {<<>>, <<UNINIT>>, <<UNINIT, "\n">>}

\* lines 35-37: n = strlen(host) - 1; if( host[n] == '\n' ) host[n] = '\0'
StripNewline(host) ==
    IF host # <<>> /\ host[Len(host)] = "\n" THEN SubSeq(host, 1, Len(host) - 1) ELSE host

\* read_config: the C strings host can hold afterwards. An empty file makes
\* fgets return NULL and leaves host as the stack had it (undefined behaviour:
\* strlen then reads uninitialised bytes).
read_config(file, size) ==
    IF ~file.exists THEN {<<>>}
    ELSE IF file.content = <<>> THEN {StripNewline(g) : g \in StackGarbage}
    ELSE {StripNewline(fgets(size - 1, file.content))}

\* the network as an early return leaves it: never consulted
NotAsked == [init |-> FALSE, connect |-> FALSE, status |-> 0, chunks |-> <<>>, recv |-> FALSE]

NoFetch == [res |-> 0, buffer |-> Mem(0), pos |-> 0, sent |-> <<>>,
            rejected |-> <<>>, aborted |-> FALSE]

NoPasswd == [pw_name |-> <<>>, pw_passwd |-> "", pw_gid |-> 0, pw_gecos |-> "",
             pw_dir |-> <<>>, pw_shell |-> ""]

\* lines 64-72 and 89-97: dir = buf + strlen(buf) + 1; the home directory is
\* copied there and the struct passwd filled in
FillPasswd(buf) ==
    LET at == StrLen(buf.bytes) + 1
        b == StoreSeq(buf, at, HomeDir \o <<NUL>>)
    IN  [buf |-> b,
         pw |-> [pw_name |-> CStr(b.bytes), pw_passwd |-> "*", pw_gid |-> NOGROUP,
                 pw_gecos |-> "bugoma", pw_dir |-> HomeDir, pw_shell |-> "/bin/false"]]

\* lines 56 and 81: if (result == NULL || buflen < 128 || *host == '\0')
NssGuard(resultNull, buflen, host) == resultNull \/ buflen < MinBufLen \/ host = <<>>

\* lines 56-57 and 81-82: the early return; nothing is written
Unavailable(op, key, buflen, file, host) ==
    [op |-> op, key |-> key, buflen |-> buflen, file |-> file, env |-> NotAsked,
     host |-> host, status |-> "UNAVAIL", called |-> FALSE, errnop |-> 0,
     pw_uid |-> ToUInt32(0), uid |-> 0, buf |-> Mem(buflen), pw |-> NoPasswd,
     url |-> <<>>, urlOob |-> {}, fetch |-> NoFetch]

\* lines 59-72 and 84-97: g is what getName or getUID did on the caller's buf.
\* A store past the end of buf or of the url block is undefined behaviour:
\* the call may go on as if nothing happened or the process may die ("CRASH").
Answer(op, key, buflen, file, env, host, g) ==
    LET filled == IF g.res = 0 THEN FillPasswd(g.username)
                  ELSE [buf |-> g.username, pw |-> NoPasswd]
        o == [op |-> op, key |-> key, buflen |-> buflen, file |-> file, env |-> env,
              host |-> host,
              status |-> IF g.res # 0 THEN "NOTFOUND" ELSE "SUCCESS",
              called |-> TRUE, errnop |-> g.res,
              pw_uid |-> ToUInt32(g.uid), uid |-> g.uid,
              buf |-> filled.buf, pw |-> filled.pw,
              url |-> g.url, urlOob |-> g.urlOob, fetch |-> g.fetch]
    IN  IF o.buf.oob # {} \/ o.urlOob # {}
        THEN {o, [o EXCEPT !.status = "CRASH"]}
        ELSE {o}

\* _nss_uds_getpwuid_r( uid, result, buf, buflen, errnop ): the set of outcomes
nss_uds_getpwuid_r(uid, resultNull, buflen, file, env) ==
    UNION {
        IF NssGuard(resultNull, buflen, host)
        THEN {Unavailable("getpwuid", uid, buflen, file, host)}
        ELSE UNION {Answer("getpwuid", uid, buflen, file, env, host, g) :
                      g \in getName(host, ToInt32(uid), Mem(buflen), env)}
        : host \in read_config(file, HostSize)}

\* _nss_uds_getpwnam_r( name, result, buf, buflen, errnop ): the set of outcomes
nss_uds_getpwnam_r(name, resultNull, buflen, file, env) ==
    UNION {
        IF NssGuard(resultNull, buflen, host)
        THEN {Unavailable("getpwnam", name, buflen, file, host)}
        ELSE UNION {Answer("getpwnam", name, buflen, file, env, host, g) :
                      g \in getUID(host, name, Mem(buflen), env)}
        : host \in read_config(file, HostSize)}

-----------------------------------------------------------------------------
(* pam_uds.c: the PAM entry point *)

UDS_QUIET == 32          \* pam_uds.c: #define UDS_QUIET 040

OptSilent == <<"s", "i", "l", "e", "n", "t">>
OptBase == <<"b", "a", "s", "e", "=">>

HasPrefix(s, p) == Len(s) >= Len(p) /\ SubSeq(s, 1, Len(p)) = p

\* strncpy(baseUrl, *argv+5, sizeof(baseUrl)); baseUrl[sizeof(baseUrl)-1] = '\0'
CopyBase(arg) ==
    LET val == SubSeq(arg, Len(OptBase) + 1, Len(arg))
    IN  SubSeq(val, 1, Min(Len(val), BaseUrlSize - 1))

\* the loop of _pam_parse, lines 44-55: the options left to right
RECURSIVE pam_parseArgs(_, _, _)
pam_parseArgs(argv, base, ctrl) ==
    IF argv = <<>> THEN [ctrl |-> ctrl, baseUrl |-> base]
    ELSE LET a == Head(argv)
         IN  IF a = OptSilent THEN pam_parseArgs(Tail(argv), base, UDS_QUIET)
             ELSE IF HasPrefix(a, OptBase) THEN pam_parseArgs(Tail(argv), CopyBase(a), ctrl)
             ELSE pam_parseArgs(Tail(argv), base, ctrl)

\* _pam_parse( flags, argc, argv ): base is the static baseUrl as the call
\* finds it; gives ctrl and baseUrl as the call leaves it
pam_parse(flags, argv, base) ==
    pam_parseArgs(argv, base, IF (flags \div PAM_SILENT) % 2 = 1 THEN UDS_QUIET ELSE 0)

\* A variant of PamStatus: a failed fetch is told apart from a denied login.
PamStatusLeaky(res) ==
    IF res = 0 THEN "PAM_SUCCESS"
    ELSE IF res = -1 THEN "PAM_AUTH_ERR" ELSE "PAM_AUTHINFO_UNAVAIL"

\* lines 93-99: the status for httpAuthenticate's result
PamStatus(res) == IF res # 0 THEN "PAM_AUTH_ERR" ELSE "PAM_SUCCESS"

NoAuth == [res |-> 0, url |-> <<>>, urlOob |-> {}, fetch |-> NoFetch]

\* pam_sm_authenticate: user and pass are what pam_get_user and pam_get_item
\* give (ok is FALSE when they fail); base is the static baseUrl before the
\* call. The set of outcomes: the status returned and baseUrl afterwards.
pam_sm_authenticate(flags, argv, user, pass, base, env) ==
    LET p == pam_parse(flags, argv, base)
        early == [op |-> "pam", argv |-> argv, user |-> user, pass |-> pass, env |-> NotAsked,
                  before |-> base, baseUrl |-> p.baseUrl, rv |-> "PAM_AUTH_ERR",
                  called |-> FALSE, auth |-> NoAuth]
    IN  IF Len(p.baseUrl) = 0 \/ ~user.ok \/ ~pass.ok THEN {early}
        ELSE UNION {
            LET o == [early EXCEPT !.rv = PamStatus(a.res), !.called = TRUE, !.auth = a,
                                   !.env = env]
            IN  IF a.urlOob # {} THEN {o, [o EXCEPT !.rv = "CRASH"]} ELSE {o}
            : a \in httpAuthenticate(user.name, pass.word, p.baseUrl, env)}

-----------------------------------------------------------------------------
(* What the network can do *)

\* a body arriving whole (cut = 0; an empty body invokes no callback) or in
\* two chunks, cut after `cut` bytes
Chunked(body, cut) ==
    IF body = <<>> THEN <<>>
    ELSE IF cut = 0 \/ cut >= Len(body) THEN <<body>>
    ELSE <<SubSeq(body, 1, cut), SubSeq(body, cut + 1, Len(body))>>

Served(body, cut, status, recv) ==
    [init |-> TRUE, connect |-> TRUE, status |-> status,
     chunks |-> Chunked(body, cut), recv |-> recv]

NoCurl == [init |-> FALSE, connect |-> FALSE, status |-> 0, chunks |-> <<>>, recv |-> FALSE]
NoConnect == [init |-> TRUE, connect |-> FALSE, status |-> 0, chunks |-> <<>>, recv |-> FALSE]

Body(env) ==
    IF Len(env.chunks) = 0 THEN <<>>
    ELSE IF Len(env.chunks) = 1 THEN env.chunks[1]
    ELSE env.chunks[1] \o env.chunks[2]

-----------------------------------------------------------------------------
(* The fetch specification: getUrl alone, over capacities and chunkings *)

Capacities == (1..MaxCap) \cup {DATASIZE}

FetchBodies ==
    {Fill("a", n) : n \in 0..(MaxCap + 1)}
        \cup {Fill("a", n) : n \in (DATASIZE - 2)..(DATASIZE + 1)}

FetchCuts == (0..MaxCap) \cup {DATASIZE - 2, DATASIZE - 1}

FetchEnvs ==
    {Served(b, c, 200, r) : b \in FetchBodies, c \in FetchCuts, r \in BOOLEAN}
        \cup {Served(<<"a">>, 0, 500, TRUE), NoCurl, NoConnect}

Idle == [op |-> "none"]

InitFetch ==
    /\ baseUrl = <<>>
    /\ call \in {[op |-> "getUrl", size |-> c, env |-> e] : c \in Capacities, e \in FetchEnvs}
    /\ ret = Idle

Fetch ==
    /\ call.op = "getUrl"
    /\ ret' = [op |-> "getUrl", size |-> call.size, env |-> call.env,
               out |-> getUrl(<<"h">>, Mem(call.size), call.size, call.env)]
    /\ call' = Idle
    /\ UNCHANGED baseUrl

NextFetch == Fetch

SpecFetch == InitFetch /\ [][NextFetch]_vars

-----------------------------------------------------------------------------
(* The entry points as the OS frameworks call them *)

\* lookup bodies: every short string, and the longer ones that reach the ends
\* of the caller's 128 bytes and of the 256-byte response buffer
LookupAlphabet == {"5", "-", "*", " ", "a"}
LookupPrefixes == {<<>>, <<"5">>, <<"5", " ">>, <<"-", "1", " ">>, <<"-", "2", " ">>}
LookupPads == {1, MinBufLen - 13, MinBufLen - 12, DATASIZE - 3, DATASIZE - 2}

LookupBodies ==
    Strings(LookupAlphabet, MaxBody)
        \cup {p \o Fill("a", n) : p \in LookupPrefixes, n \in LookupPads}

Failures ==
    {Served(<<"5", " ", "a">>, 0, s, r) : s \in {200, 302, 404, 500}, r \in BOOLEAN}
        \cup {NoCurl, NoConnect}

\* A short body arrives whole; a long one whole or cut in two.
LookupEnvs ==
    {Served(b, 0, 200, TRUE) : b \in LookupBodies}
        \cup {Served(p \o Fill("a", n), c, 200, TRUE) :
                 p \in LookupPrefixes, n \in LookupPads, c \in 1..MaxCut}
        \cup Failures

AuthBodies ==
    Strings({"0", "1"}, MaxBody)
        \cup {<<c>> \o Fill("a", n) : c \in {"0", "1"}, n \in {DATASIZE - 2, DATASIZE - 1}}

AuthEnvs ==
    {Served(b, c, 200, TRUE) : b \in AuthBodies, c \in 0..MaxCut}
        \cup {Served(b, 0, s, r) : b \in AuthBodies, s \in {302, 500}, r \in BOOLEAN}
        \cup Failures

Names == {<<"a">>}
Uids == {[hi |-> 0, lo |-> 10], [hi |-> 65535, lo |-> 65535]}
BufLens == {MinBufLen - 1, MinBufLen, 1024}

Line(n) == Fill("h", n) \o <<"\n">>

ConfFiles ==
    {[exists |-> FALSE, content |-> <<>>]}
        \cup {[exists |-> TRUE, content |-> c] :
                c \in {<<>>, <<"\n">>, <<"h">>, Line(1) \o Line(2),
                       Line(UrlSize - 7), Line(HostSize + 10)}}

Argvs ==
    Strings({OptSilent, <<"d", "e", "b", "u", "g">>, OptBase, OptBase \o <<"h">>,
             OptBase \o Fill("g", BaseUrlSize + 2)}, MaxArgs)

\* what pam_get_user gives: PAM puts no bound on the length of a user name
Users ==
    {[ok |-> TRUE, name |-> <<"u">>], [ok |-> TRUE, name |-> Fill("u", UrlSize)],
     [ok |-> FALSE, name |-> <<>>]}
Passwords == {[ok |-> TRUE, word |-> <<"p">>], [ok |-> FALSE, word |-> <<>>]}

Init ==
    /\ baseUrl = <<>>
    /\ call = Idle
    /\ ret = Idle

getpwnam ==
    /\ ret = Idle
    /\ \E name \in Names, resultNull \in BOOLEAN, buflen \in BufLens,
          file \in ConfFiles, env \in LookupEnvs :
          ret' \in nss_uds_getpwnam_r(name, resultNull, buflen, file, env)
    /\ UNCHANGED <<baseUrl, call>>

getpwuid ==
    /\ ret = Idle
    /\ \E uid \in Uids, resultNull \in BOOLEAN, buflen \in BufLens,
          file \in ConfFiles, env \in LookupEnvs :
          ret' \in nss_uds_getpwuid_r(uid, resultNull, buflen, file, env)
    /\ UNCHANGED <<baseUrl, call>>

authenticate ==
    /\ ret = Idle
    /\ \E flags \in {0, PAM_SILENT}, argv \in Argvs, user \in Users, pass \in Passwords,
          env \in AuthEnvs :
          \E o \in pam_sm_authenticate(flags, argv, user, pass, baseUrl, env) :
              /\ ret' = o
              /\ baseUrl' = o.baseUrl
    /\ UNCHANGED call

\* the framework takes the result; the next call can come
Return ==
    /\ ret # Idle
    /\ ret' = Idle
    /\ UNCHANGED <<baseUrl, call>>

Next == getpwnam \/ getpwuid \/ authenticate \/ Return

Spec == Init /\ [][Next]_vars

-----------------------------------------------------------------------------
(* Claims *)

Total(env) == Len(Body(env))

\* C1: every byte getUrl writes into the response buffer, the terminating NUL
\* included, lands at an index below the capacity; a chunk that would bring the
\* bytes received to the capacity or more is refused whole (the fetch returns a
\* non-zero error and no byte of that chunk is copied); a response of exactly
\* capacity - 1 bytes is accepted and NUL-terminated at index capacity - 1.
C1_WritesBelowCapacity ==
    ret.op = "getUrl" =>
        LET o == ret.out
            fits == Total(ret.env) < ret.size
            delivered == ret.env.init /\ ret.env.connect /\ ret.env.status < 400
        IN  /\ o.buffer.oob = {}
            /\ o.pos < ret.size
            /\ ret.env.init => o.buffer.bytes[o.pos + 1] = NUL
            /\ (delivered /\ fits) =>
                   /\ o.pos = Total(ret.env)
                   /\ CStr(o.buffer.bytes) = Body(ret.env)
                   /\ o.res = (IF ret.env.recv THEN 0 ELSE CURLE_RECV_ERROR)
            /\ (delivered /\ ~fits) =>
                   /\ o.aborted
                   /\ o.res # 0
                   /\ o.pos + Len(o.rejected) >= ret.size
                   /\ o.pos \in {0, Len(ret.env.chunks[1])}
                   /\ \A i \in (o.pos + 2)..ret.size : o.buffer.bytes[i] = UNINIT

\* C1 witness: a body of exactly capacity - 1 bytes was accepted in two chunks
\* and terminated at the last index of a 256-byte buffer.
C1_Witness ==
    /\ ret.op = "getUrl"
    /\ ret.size = DATASIZE
    /\ Len(ret.env.chunks) = 2
    /\ ret.out.res = 0
    /\ ret.out.pos = DATASIZE - 1
    /\ ret.out.buffer.bytes[DATASIZE] = NUL

-----------------------------------------------------------------------------
(* Claims about the entry points *)

NssOps == {"getpwnam", "getpwuid"}

\* the last call was a lookup that went as far as getUID / getName, with the
\* endpoint read from a configuration file that holds one and a URL that fits
\* its block (no undefined behaviour before the part the claims are about)
Looked ==
    /\ ret.op \in NssOps /\ ret.called
    /\ ret.file.content # <<>> /\ ret.urlOob = {}
Authed == ret.op = "pam" /\ ret.called

\* C2: the NSS entry points write only inside buf[0..buflen): on SUCCESS the
\* name with its NUL and the home directory with its NUL fit in the caller's
\* buffer, and a record that does not fit is answered UNAVAIL with no part of
\* it written.
C2_RecordInsideBuf ==
    (ret.op \in NssOps /\ (ret.called => Looked)) =>
        /\ ret.status = "SUCCESS" =>
               /\ ret.buf.oob = {}
               /\ Len(ret.pw.pw_name) + 1 + Len(ret.pw.pw_dir) + 1 <= ret.buflen
        /\ ret.buf.oob = {}

\* C3: a lookup has no partial success: it reports success only when both the
\* numeric id and a non-empty name token were parsed from the body.
C3_NoPartialSuccess ==
    (Looked /\ ret.errnop = 0) =>
        /\ sscanf(Body(ret.env)).n = 2
        /\ CStr(ret.buf.bytes) # <<>>

\* C4: a lookup that reports success surfaces an id >= 0; a body that starts
\* with '*' and a body whose id parses as -1 are answered NOT_FOUND.
C4_NoNegativeId ==
    Looked =>
        /\ ret.errnop = 0 => ret.uid >= 0
        /\ ret.status = "SUCCESS" => ret.uid >= 0
        /\ (ret.fetch.res = 0 /\ Body(ret.env) # <<>> /\ Body(ret.env)[1] = "*")
               => ret.status = "NOTFOUND"
        /\ (ret.fetch.res = 0 /\ sscanf(Body(ret.env)).n >= 1 /\ sscanf(Body(ret.env)).d = -1)
               => ret.status = "NOTFOUND"

\* the transport of the claim: the request went out, the status was 2xx and
\* the body arrived whole within the buffer
TransportOk(env) ==
    /\ env.init /\ env.connect /\ env.recv
    /\ env.status >= 200 /\ env.status < 300
    /\ Total(env) < DATASIZE

FirstByte(env) == IF Body(env) = <<>> THEN NUL ELSE Body(env)[1]

\* C5: httpAuthenticate returns 0 exactly when the transport succeeded and the
\* first byte of the body is not '0'; DENIED when it is '0'; non-zero on every
\* transport failure, a non-2xx status and an overflowing response included.
C5_AuthExactly ==
    Authed =>
        /\ ret.auth.res = 0 <=> (TransportOk(ret.env) /\ FirstByte(ret.env) # "0")
        /\ (TransportOk(ret.env) /\ FirstByte(ret.env) = "0") => ret.auth.res = -1

HasBase(argv) == \E i \in 1..Len(argv) : HasPrefix(argv[i], OptBase) /\ argv[i] # OptBase

\* C6: with the endpoint missing or empty (no config file, an empty one, one
\* holding an empty line, no base= option) every entry point returns its
\* configuration failure and issues no network request.
C6_UnconfiguredFailsFast ==
    /\ (ret.op \in NssOps /\ (~ret.file.exists \/ ret.file.content \in {<<>>, <<"\n">>}))
           => (ret.status = "UNAVAIL" /\ ret.fetch.sent = <<>>)
    /\ (ret.op = "pam" /\ ~HasBase(ret.argv))
           => (ret.rv = "PAM_AUTH_ERR" /\ ret.auth.fetch.sent = <<>>)

\* the endpoint a call's own arguments name
OwnBase(argv) == pam_parseArgs(argv, <<>>, 0).baseUrl

\* C7: calls share no mutable state: the endpoint a pam_sm_authenticate call
\* contacts depends on that call's arguments alone, never on a base= option
\* given to another call.
C7_NoSharedState ==
    (ret.op = "pam" /\ ret.auth.fetch.sent # <<>>) =>
        /\ HasBase(ret.argv)
        /\ ret.auth.url = AuthUrl(ret.user.name, ret.pass.word, OwnBase(ret.argv))

Overflowed == ret.op \in NssOps /\ ret.called /\ ret.fetch.aborted

\* C8 as claimed: when the response would exceed the capacity, no byte of it
\* is in the destination buffer afterwards, also when only a later chunk
\* crosses the bound, and the lookup fails with no response byte in the
\* caller's name buffer.
C8_BufferUntouched ==
    (Overflowed /\ Looked) =>
        /\ ret.fetch.pos = 0
        /\ \A i \in 1..DATASIZE : ret.fetch.buffer.bytes[i] \in {UNINIT, NUL}
        /\ ret.errnop # 0
        /\ ret.buf.bytes = <<NUL>> \o Fill(UNINIT, ret.buflen - 1)

\* the chunks of the body that came before the refused one
AcceptedPrefix(o) == SubSeq(Body(o.env), 1, o.fetch.pos)

\* C8 as amended: the chunk that crosses the bound is refused whole and the
\* fetch fails; the buffer holds the chunks accepted before it, NUL-terminated,
\* and nothing of the refused chunk; the lookup never reports success and the
\* caller's name buffer holds the empty string and no response byte.
C8_RefusedChunkNotCopied ==
    Overflowed =>
        /\ ret.fetch.res = CURLE_WRITE_ERROR
        /\ ret.fetch.pos + Len(ret.fetch.rejected) >= DATASIZE
        /\ ret.fetch.pos + Len(ret.fetch.rejected) <= Total(ret.env)
        /\ AcceptedPrefix(ret) \o ret.fetch.rejected = SubSeq(Body(ret.env), 1,
               ret.fetch.pos + Len(ret.fetch.rejected))
        /\ ret.fetch.buffer.bytes =
               AcceptedPrefix(ret) \o <<NUL>> \o Fill(UNINIT, DATASIZE - ret.fetch.pos - 1)
        /\ ret.errnop # 0
        /\ ret.status # "SUCCESS"
        /\ ret.buf.bytes = <<NUL>> \o Fill(UNINIT, ret.buflen - 1)

\* C8 witness: a lookup whose response came in two chunks, the first accepted
\* and the second crossing the bound.
C8_Witness ==
    /\ Overflowed
    /\ ret.fetch.pos > 0
    /\ ret.status = "NOTFOUND"

\* the decimal text of each uid the model looks up, as an int
DecimalId(uid) ==
    IF uid = [hi |-> 0, lo |-> 10] THEN <<"1", "0">>
    ELSE IF uid = [hi |-> 65535, lo |-> 65535] THEN <<"-", "1">>
    ELSE <<"0">>

Query(key, value) == <<"?">> \o key \o <<"=">> \o value

\* the URL the last call asked libcurl for
Requested ==
    IF ret.op = "pam" THEN ret.auth.fetch.sent
    ELSE IF ret.op \in NssOps THEN ret.fetch.sent ELSE <<>>
UrlFits == IF ret.op = "pam" THEN ret.auth.urlOob = {} ELSE ret.urlOob = {}

\* C9 as claimed: resolve-by-name requests <endpoint>?id=<name>, resolve-by-id
\* <endpoint>?name=<decimal id>, authenticate <endpoint>?id=<user>&pass=<pass>.
C9_WireTable ==
    (Requested # <<>> /\ UrlFits /\ (ret.op \in NssOps => Looked)) =>
        Requested[1] =
            CASE ret.op = "getpwnam" -> ret.host \o Query(<<"i", "d">>, ret.key)
              [] ret.op = "getpwuid" ->
                    ret.host \o Query(<<"n", "a", "m", "e">>, DecimalId(ret.key))
              [] ret.op = "pam" ->
                    ret.baseUrl \o Query(<<"i", "d">>, ret.user.name)
                        \o <<"&", "p", "a", "s", "s", "=">> \o ret.pass.word

\* C9 as amended: resolve-by-name requests <endpoint>?uid=<name>; the other two
\* are as claimed; each whenever the URL with its NUL fits the 256-byte block.
C9_WireTableUid ==
    (Requested # <<>> /\ UrlFits) =>
        Requested[1] =
            CASE ret.op = "getpwnam" -> ret.host \o Query(<<"u", "i", "d">>, ret.key)
              [] ret.op = "getpwuid" ->
                    ret.host \o Query(<<"n", "a", "m", "e">>, DecimalId(ret.key))
              [] ret.op = "pam" ->
                    ret.baseUrl \o Query(<<"i", "d">>, ret.user.name)
                        \o <<"&", "p", "a", "s", "s", "=">> \o ret.pass.word

\* C9 witness: a resolve-by-name request whose URL fills the block exactly.
C9_Witness ==
    /\ ret.op = "getpwnam"
    /\ Requested # <<>>
    /\ Len(Requested[1]) = UrlSize - 1
    /\ ret.urlOob = {}

\* C10: pam_sm_authenticate returns the same PAM_AUTH_ERR for a login the
\* service denied and for one that failed in transport, and PAM_SUCCESS only
\* when httpAuthenticate reported AUTHENTICATED.
C10_DenialLooksLikeFailure ==
    (ret.op = "pam" /\ ret.rv # "CRASH") =>
        /\ ret.rv \in {"PAM_SUCCESS", "PAM_AUTH_ERR"}
        /\ ret.rv = "PAM_SUCCESS" <=> (ret.called /\ ret.auth.res = 0)
        /\ (ret.called /\ ret.auth.fetch.res = 0 /\ FirstByte(ret.env) = "0")
               => ret.rv = "PAM_AUTH_ERR"
        /\ (ret.called /\ ret.auth.fetch.res # 0) => ret.rv = "PAM_AUTH_ERR"

\* C10 witness: a login the service denied, answered PAM_AUTH_ERR.
C10_Witness ==
    /\ Authed
    /\ ret.auth.fetch.res = 0
    /\ FirstByte(ret.env) = "0"
    /\ ret.rv = "PAM_AUTH_ERR"

\* the last call formatted a request URL from an endpoint the configuration
\* supplied: a host read from a configuration file that holds one, or the
\* baseUrl the base= option left
Formatted ==
    \/ ret.op \in NssOps /\ ret.called /\ ret.file.content # <<>>
    \/ Authed

\* the bytes sprintf stored outside the url block in the last call
UrlOob == IF ret.op = "pam" THEN ret.auth.urlOob ELSE ret.urlOob

\* the text sprintf formatted in the last call
UrlText == IF ret.op = "pam" THEN ret.auth.url ELSE ret.url

\* C11: the request URL that httpAuthenticate and getUserData write, with its
\* terminating NUL, fits the 256-byte url block whatever endpoint the
\* configuration supplies and whatever user name, password or id the caller
\* passes: no byte is stored past index 255.
C11_UrlInsideBlock ==
    Formatted =>
        /\ UrlOob = {}
        /\ Len(UrlText) + 1 <= UrlSize

====
